---- MODULE Spec2Model ----
(***************************************************************************)
(* Quiz Vocacional Juridico (src/app.py): the scorer, the narrative        *)
(* provider, the CSV result log, the submission handler and the dashboard. *)
(*                                                                         *)
(* Conventions                                                             *)
(*  - a Python str is a TLA+ string when only its identity matters (codes, *)
(*    names, column names) and a sequence of one-character strings when    *)
(*    the code looks inside it (the text str.strip() works on);            *)
(*  - Python None is the token NoneVal, a pandas NaN is the token NaN;     *)
(*  - a dict keeps its insertion order: CARREIRAS_KEYS is the key order of *)
(*    CARREIRAS, and every dict built by {c: ... for c in CARREIRAS}       *)
(*    iterates in that order.                                              *)
(***************************************************************************)
EXTENDS Integers, Sequences, FiniteSets, TLC

VARIABLES
    \* ---- calcular_resultados -------------------------------------------
    respostas,       \* the dict question id -> selected code, as the sequence of its values
    resultados,      \* the tally returned (code -> count)
    carreira_final,  \* the winner returned
    score_out,       \* "pending" | "returned" | "KeyError"
    \* ---- get_gemini_descricao ------------------------------------------
    GEMINI_OK,       \* the import at lines 13-17 succeeded
    secret_key,      \* what st.secrets.get("GEMINI_API_KEY") does
    env_key,         \* what os.environ.get("GEMINI_API_KEY") returns
    service,         \* what the external call does: [kind, text]
    texto,           \* the text returned
    gemini_calls,    \* how many times generate_content was called
    narr_out,        \* "pending" | "returned" | "raised"
    \* ---- salvar_resultado_csv and the script run -------------------------
    nome,            \* the text of the name field
    linha,           \* the row dict built at lines 117-127: [err, cols, vals]
    file,            \* resultados.csv: [exists, header, lines]
    now,             \* the clock datetime.now() reads
    pc,              \* where the script run is
    tela,            \* what the quiz tab shows: [carreira, texto]
    pdf,             \* the content handed to the download button
    dash,            \* what the dashboard tab shows: [state, total, dist]
    \* ---- two processes inside salvar_resultado_csv ------------------------
    cpc,             \* process -> "start" | "read" | "concat" | "write" | "done"
    cnovo,           \* process -> its df_novo
    cdf              \* process -> its df

scoreVars == <<respostas, resultados, carreira_final, score_out>>
narrVars == <<GEMINI_OK, secret_key, env_key, service, texto, gemini_calls, narr_out>>
logVars == <<nome, linha, file, now>>
pageVars == <<pc, tela, pdf, dash>>
concVars == <<cpc, cnovo, cdf>>
vars == <<scoreVars, narrVars, logVars, pageVars, concVars>>

----------------------------------------------------------------------------
\* Bounds of the model.

\* the longest ResponseSet handed to calcular_resultados
MaxPerguntas == 3
\* the longest text the external service answers with
MaxTextLen == 2
\* the largest count of one category in a tally handed to salvar_resultado_csv
MaxCount == 2
\* the number of quiz submissions a behaviour of the application holds
MaxRows == 2

----------------------------------------------------------------------------
\* Constants of the program.

\* the keys of CARREIRAS, in definition order
CARREIRAS_KEYS == <<"advocacia", "magistratura", "ministerio_publico", "consultoria">>

CarreiraSet == {CARREIRAS_KEYS[i] : i \in DOMAIN CARREIRAS_KEYS}

\* code -> display label
CARREIRAS ==
    [c \in CarreiraSet |->
        CASE c = "advocacia" -> "Advocacia"
          [] c = "magistratura" -> "Magistratura"
          [] c = "ministerio_publico" -> "Ministerio Publico"
          [] c = "consultoria" -> "Consultoria Juridica"]

\* code -> static description. Each description is a non-empty text without
\* surrounding whitespace; the model keeps one token per description.
DESCRICOES_BASE == [c \in CarreiraSet |-> <<"descricao", c>>]

\* Python None
NoneVal == "<None>"

\* a code that is no key of CARREIRAS
CodigoDesconhecido == "docencia"

\* the values for which Python's `if r:` is false
Falsy == {"", NoneVal}

----------------------------------------------------------------------------
\* calcular_resultados (lines 107-113)

\* resultados = {c: 0 for c in CARREIRAS}
TallyZero == [c \in CarreiraSet |-> 0]

\* a bug: resultados[r] = 1 in place of += 1
RECURSIVE ContarMutAssign(_, _)
ContarMutAssign(vals, res) ==
    IF vals = <<>> THEN [err |-> FALSE, res |-> res]
    ELSE LET r == Head(vals) IN
         IF r \in Falsy THEN ContarMutAssign(Tail(vals), res)
         ELSE IF r \notin DOMAIN res THEN [err |-> TRUE, res |-> res]
         ELSE ContarMutAssign(Tail(vals), [res EXCEPT ![r] = 1])

\* a bug that swallows the KeyError of an unknown code
RECURSIVE ContarMutSwallow(_, _)
ContarMutSwallow(vals, res) ==
    IF vals = <<>> THEN [err |-> FALSE, res |-> res]
    ELSE LET r == Head(vals) IN
         IF r \in Falsy \/ r \notin DOMAIN res THEN ContarMutSwallow(Tail(vals), res)
         ELSE ContarMutSwallow(Tail(vals), [res EXCEPT ![r] = @ + 1])

\* the loop of lines 109-111 over respostas.values(): a falsy value is
\* skipped, resultados[r] += 1 raises KeyError for a key the dict lacks
RECURSIVE ContarRec(_, _)
ContarRec(vals, res) ==
    IF vals = <<>> THEN [err |-> FALSE, res |-> res]
    ELSE LET r == Head(vals) IN
         IF r \in Falsy THEN ContarRec(Tail(vals), res)
         ELSE IF r \notin DOMAIN res THEN [err |-> TRUE, res |-> res]
         ELSE ContarRec(Tail(vals), [res EXCEPT ![r] = @ + 1])

Contar(vals, res) == ContarRec(vals, res)

\* max(resultados, key=resultados.get): the keys in dict order, the first of
\* the largest wins (a later key replaces the best only when strictly larger)
RECURSIVE MaxKeyFrom(_, _, _)
MaxKeyFrom(keys, best, res) ==
    IF keys = <<>> THEN best
    ELSE MaxKeyFrom(Tail(keys),
                    IF res[Head(keys)] > res[best] THEN Head(keys) ELSE best,
                    res)

\* a bug: >= lets the last of the largest win
RECURSIVE MaxKeyLastFrom(_, _, _)
MaxKeyLastFrom(keys, best, res) ==
    IF keys = <<>> THEN best
    ELSE MaxKeyLastFrom(Tail(keys),
                        IF res[Head(keys)] >= res[best] THEN Head(keys) ELSE best,
                        res)

MaxKeyMutLast(res) == MaxKeyLastFrom(Tail(CARREIRAS_KEYS), Head(CARREIRAS_KEYS), res)

MaxKey(res) == MaxKeyFrom(Tail(CARREIRAS_KEYS), Head(CARREIRAS_KEYS), res)

\* the whole function: [err, resultados, carreira_final]
calcular_resultados(resp) ==
    LET t == Contar(resp, TallyZero) IN
    IF t.err THEN [err |-> TRUE, resultados |-> TallyZero, carreira_final |-> NoneVal]
    ELSE [err |-> FALSE, resultados |-> t.res, carreira_final |-> MaxKey(t.res)]

----------------------------------------------------------------------------
\* get_gemini_descricao (lines 62-104)

\* whitespace characters str.strip() removes
Whitespace == {" ", "\n"}

\* the characters of the service's answers in the model
Alphabet == {" ", "x"}

Textos == UNION {[1..k -> Alphabet] : k \in 0..MaxTextLen}

RECURSIVE LStrip(_)
LStrip(s) == IF s # <<>> /\ Head(s) \in Whitespace THEN LStrip(Tail(s)) ELSE s

RECURSIVE RStrip(_)
RStrip(s) ==
    IF s # <<>> /\ s[Len(s)] \in Whitespace THEN RStrip(SubSeq(s, 1, Len(s) - 1)) ELSE s

\* str.strip()
Strip(s) == RStrip(LStrip(s))

\* what st.secrets.get can do: raise (no secrets file), or return None, "" or a key
SecretOutcomes == {"raise", NoneVal, "", "key-s"}
\* what os.environ.get returns
EnvOutcomes == {NoneVal, "", "key-e"}
\* what lines 82-101 can do: any of configure, GenerativeModel,
\* generate_content and resposta.text raises, or a text comes back
ServiceOutcomes ==
    {[kind |-> k, text |-> <<>>] : k \in {"configure_raises", "generate_raises", "text_raises"}}
    \cup {[kind |-> "text", text |-> t] : t \in Textos}

\* lines 69-73: the try around st.secrets.get turns an exception into None
ApiKeyFromSecrets(sec) == IF sec = "raise" THEN NoneVal ELSE sec

\* lines 69-76
ApiKey(sec, env) ==
    LET k == ApiKeyFromSecrets(sec) IN IF k \in Falsy THEN env ELSE k

\* a bug: a failed generate_content is tried again
GeminiAttemptMutRetry(base, svc) ==
    IF svc.kind = "text"
    THEN [text |-> Strip(svc.text), calls |-> 1, raised |-> FALSE]
    ELSE IF svc.kind = "configure_raises"
    THEN [text |-> base, calls |-> 0, raised |-> FALSE]
    ELSE [text |-> base, calls |-> 2, raised |-> FALSE]

\* lines 81-104: one attempt; every exception ends in the static description
GeminiAttempt(base, svc) ==
    CASE svc.kind = "configure_raises" -> [text |-> base, calls |-> 0, raised |-> FALSE]
      [] svc.kind = "generate_raises" -> [text |-> base, calls |-> 1, raised |-> FALSE]
      [] svc.kind = "text_raises" -> [text |-> base, calls |-> 1, raised |-> FALSE]
      [] svc.kind = "text" -> [text |-> Strip(svc.text), calls |-> 1, raised |-> FALSE]

\* the whole function: [text, calls, raised]
get_gemini_descricao(carreira_codigo, ok, sec, env, svc) ==
    LET descricao_base ==
            IF carreira_codigo \in DOMAIN DESCRICOES_BASE
            THEN DESCRICOES_BASE[carreira_codigo] ELSE <<>>
        api_key == ApiKey(sec, env)
    IN  IF ~ok THEN [text |-> descricao_base, calls |-> 0, raised |-> FALSE]
        ELSE IF api_key \in Falsy
        THEN [text |-> descricao_base, calls |-> 0, raised |-> FALSE]
        ELSE GeminiAttempt(descricao_base, svc)

----------------------------------------------------------------------------
\* salvar_resultado_csv (lines 116-137)

\* a pandas missing value
NaN == "<NaN>"

\* the strings pd.read_csv reads as missing (its default na_values)
NA_VALUES ==
    {"", "#N/A", "#N/A N/A", "#NA", "-1.#IND", "-1.#QNAN", "-NaN", "-nan", "1.#IND",
     "1.#QNAN", "<NA>", "N/A", "NA", "NULL", "NaN", "None", "n/a", "nan", "null"}

\* a column name: f"pontos_{c}" is <<"pontos", c>>, "nome" is <<"nome", "">>
Col(prefix, c) == <<prefix, c>>

\* the columns whose cells are text
TextCols == {"nome", "carreira_final"}

Range(s) == {s[i] : i \in DOMAIN s}

RECURSIVE SumOver(_, _)
SumOver(keys, f) == IF keys = <<>> THEN 0 ELSE f[Head(keys)] + SumOver(Tail(keys), f)

\* sum(resultados.values())
SumValues(res) == SumOver(SelectSeq(CARREIRAS_KEYS, LAMBDA c : c \in DOMAIN res), res)

\* a bug: line 117 without the `or 1`
TotalMutNoGuard(res) == SumValues(res)

\* total = sum(resultados.values()) or 1
Total(res) == IF SumValues(res) = 0 THEN 1 ELSE SumValues(res)

\* ---- binary64 arithmetic ----------------------------------------------
\* A float >= 0 is [m, e] with value m * 2^e. The significand m has 53 bits,
\* the top one set, and is kept as three limbs <<a0, a1, a2>>, least
\* significant first, in base 2^18 (18 + 18 + 17 bits); 0.0 is FZero.
\* A natural number of any size is a sequence of such limbs without leading
\* zero limbs. The operands stay below 2^12, so no intermediate value leaves
\* the 32-bit integers.

LimbBase == 2 ^ 18

\* the top limb of a significand lies in TopLow .. 2 * TopLow - 1
TopLow == 2 ^ 16

FZero == [m |-> <<0, 0, 0>>, e |-> 0]

\* the significand plus one unit in the last place
FIncrement(f) ==
    LET a0 == f.m[1] + 1
        a1 == f.m[2] + (IF a0 = LimbBase THEN 1 ELSE 0)
        a2 == f.m[3] + (IF a1 = LimbBase THEN 1 ELSE 0)
    IN  IF a2 = 2 * TopLow THEN [m |-> <<0, 0, TopLow>>, e |-> f.e + 1]
        ELSE [m |-> <<a0 % LimbBase, a1 % LimbBase, a2>>, e |-> f.e]

\* round to nearest, ties to even: rem is what was cut off, half is half a
\* unit in the last place, both on the same scale
FRound(f, rem, half) ==
    IF rem > half \/ (rem = half /\ f.m[1] % 2 = 1) THEN FIncrement(f) ELSE f

\* Python's p / n for ints 0 <= p, 0 < n: the quotient, correctly rounded.
\* num / den lies in [1, 2) and is the quotient scaled by a power of two;
\* the 52 bits after the leading one come from three long-division steps.
FDivNat(p, n) ==
    IF p = 0 THEN FZero
    ELSE LET up == CHOOSE k \in 0..12 : p * 2 ^ k >= n /\ (k = 0 \/ p * 2 ^ (k - 1) < n)
             down == CHOOSE k \in 0..12 : p < n * 2 ^ (k + 1) /\ (k = 0 \/ p >= n * 2 ^ k)
             num == p * 2 ^ up
             den == n * 2 ^ down
             r0 == num - den
             a2 == TopLow + (r0 * TopLow) \div den
             r1 == (r0 * TopLow) % den
             a1 == (r1 * LimbBase) \div den
             r2 == (r1 * LimbBase) % den
             a0 == (r2 * LimbBase) \div den
             r3 == (r2 * LimbBase) % den
         IN  FRound([m |-> <<a0, a1, a2>>, e |-> down - up - 52], 2 * r3, den)

\* x * k for a limb sequence x and an int 0 <= k < 2^12, exactly
RECURSIVE LMulNat(_, _, _)
LMulNat(x, k, carry) ==
    IF x = <<>> THEN (IF carry = 0 THEN <<>> ELSE <<carry>>)
    ELSE LET t == Head(x) * k + carry IN
         <<t % LimbBase>> \o LMulNat(Tail(x), k, t \div LimbBase)

\* f * k for a float f and an int 0 < k < 2^12, correctly rounded: the exact
\* product has at most 12 bits too many, which are shifted out and rounded
FMulNat(f, k) ==
    IF f = FZero THEN FZero
    ELSE LET x == LMulNat(f.m, k, 0)
             top == x[3] + (IF Len(x) > 3 THEN x[4] * LimbBase ELSE 0)
             sh == CHOOSE j \in 0..13 :
                      top \div 2 ^ j < 2 * TopLow /\ (j = 0 \/ top \div 2 ^ (j - 1) >= 2 * TopLow)
             cut == 2 ^ sh
             keep == LimbBase \div cut
         IN  FRound([m |-> <<(x[2] % cut) * keep + x[1] \div cut,
                              (top % cut) * keep + x[2] \div cut,
                              top \div cut>>,
                     e |-> f.e + sh],
                    2 * (x[1] % cut), cut)

\* p / total * 100; ZeroDivisionError when total = 0
Perc(p, total) ==
    IF total = 0 THEN [err |-> TRUE, val |-> FZero]
    ELSE [err |-> FALSE, val |-> FMulNat(FDivNat(p, total), 100)]

\* the keys of resultados in dict order
ItemKeys(res) == SelectSeq(CARREIRAS_KEYS, LAMBDA c : c \in DOMAIN res)

\* the columns of linha in insertion order: the three of lines 119-123, then
\* pontos_c and perc_c for each item of resultados (lines 125-127)
RECURSIVE ItemCols(_)
ItemCols(keys) ==
    IF keys = <<>> THEN <<>>
    ELSE <<Col("pontos", Head(keys)), Col("perc", Head(keys))>> \o ItemCols(Tail(keys))

LinhaCols(res) ==
    <<Col("timestamp", ""), Col("nome", ""), Col("carreira_final", "")>>
        \o ItemCols(ItemKeys(res))

\* lines 117-127: [err, cols, vals]
BuildLinha(clock, nm, res, final) ==
    LET total == Total(res)
        cols == LinhaCols(res)
    IN  [err |-> \E c \in DOMAIN res : Perc(res[c], total).err,
         cols |-> cols,
         vals |-> [k \in Range(cols) |->
                     CASE k[1] = "timestamp" -> clock
                       [] k[1] = "nome" -> nm
                       [] k[1] = "carreira_final" -> final
                       [] k[1] = "pontos" -> res[k[2]]
                       [] k[1] = "perc" -> Perc(res[k[2]], total).val]]

\* pd.DataFrame([linha])
DataFrameOf(l) == [columns |-> l.cols, rows |-> <<l.vals>>]

\* how pd.read_csv reads one cell: a text cell that is one of NA_VALUES
\* becomes NaN; the numbers written by to_csv are read back as written
ParseCell(k, cell) ==
    IF k[1] \in TextCols /\ cell \in NA_VALUES THEN NaN ELSE cell

\* how to_csv writes one value: NaN as the empty string (na_rep = "")
FormatCell(k, v) ==
    IF k[1] \in TextCols /\ v = NaN THEN "" ELSE v

\* pd.read_csv("resultados.csv") of an existing file
ReadCsv(f) ==
    [columns |-> f.header,
     rows |-> [i \in DOMAIN f.lines |->
                 [k \in DOMAIN f.lines[i] |-> ParseCell(k, f.lines[i][k])]]]

\* pd.concat([a, b], ignore_index=True): the union of the columns, a's
\* first; a cell a frame lacks is NaN
ConcatCols(a, b) == a \o SelectSeq(b, LAMBDA k : k \notin Range(a))

ConcatFill(row, cols) ==
    [k \in Range(cols) |-> IF k \in DOMAIN row THEN row[k] ELSE NaN]

Concat(a, b) ==
    LET cols == ConcatCols(a.columns, b.columns) IN
    [columns |-> cols,
     rows |-> [i \in 1..(Len(a.rows) + Len(b.rows)) |->
                 IF i <= Len(a.rows) THEN ConcatFill(a.rows[i], cols)
                 ELSE ConcatFill(b.rows[i - Len(a.rows)], cols)]]

\* df.to_csv("resultados.csv", index=False)
ToCsv(df) ==
    [exists |-> TRUE,
     header |-> df.columns,
     lines |-> [i \in DOMAIN df.rows |->
                  [k \in DOMAIN df.rows[i] |-> FormatCell(k, df.rows[i][k])]]]

\* a bug: the old frame is dropped
FrameToWriteMutOverwrite(f, l) == DataFrameOf(l)

\* lines 129-135: the frame to write
FrameToWrite(f, l) ==
    IF f.exists THEN Concat(ReadCsv(f), DataFrameOf(l)) ELSE DataFrameOf(l)

NoFrame == [columns |-> <<>>, rows |-> <<>>]

\* the processes that run salvar_resultado_csv at the same time
Procs == {1, 2}

\* no resultados.csv
NoFile == [exists |-> FALSE, header |-> <<>>, lines |-> <<>>]

NoLinha == [err |-> FALSE, cols |-> <<>>, vals |-> <<>>]

----------------------------------------------------------------------------
\* gerar_pdf_relatorio (lines 140-169) and the two tabs (lines 179-245)

\* the content of the report: the name line is left out for an empty name
gerar_pdf_relatorio(nm, res, final, descricao) ==
    [participante |-> IF nm = "" THEN NoneVal ELSE nm,
     carreira |-> CARREIRAS[final],
     pontos |-> res,
     descricao |-> descricao]

NoPdf == [participante |-> NoneVal, carreira |-> "", pontos |-> TallyZero, descricao |-> <<>>]

NoTela == [carreira |-> "", texto |-> <<>>]

NoDash == [state |-> "blank", total |-> 0, dist |-> <<>>]

\* df["carreira_final"].value_counts(): one entry per value present, NaN left out
value_counts(df, col) ==
    LET present == {df.rows[i][col] : i \in DOMAIN df.rows} \ {NaN} IN
    [v \in present |-> Cardinality({i \in DOMAIN df.rows : df.rows[i][col] = v})]

\* a bug: the first row is not counted
value_countsMutSkipFirst(df, col) ==
    LET idx == DOMAIN df.rows \ {1}
        present == {df.rows[i][col] : i \in idx} \ {NaN} IN
    [v \in present |-> Cardinality({i \in idx : df.rows[i][col] = v})]

DashboardMutCount(f) ==
    IF ~f.exists THEN [state |-> "info", total |-> 0, dist |-> <<>>]
    ELSE LET df == ReadCsv(f) IN
         [state |-> "data",
          total |-> Len(df.rows),
          dist |-> value_countsMutSkipFirst(df, Col("carreira_final", ""))]

\* lines 230-245
Dashboard(f) ==
    IF ~f.exists THEN [state |-> "info", total |-> 0, dist |-> <<>>]
    ELSE LET df == ReadCsv(f) IN
         [state |-> "data",
          total |-> Len(df.rows),
          dist |-> value_counts(df, Col("carreira_final", ""))]

----------------------------------------------------------------------------
\* Idle values of the variables a specification does not use.

ScoreIdle ==
    /\ respostas = <<>>
    /\ resultados = TallyZero
    /\ carreira_final = NoneVal
    /\ score_out = "pending"

NarrIdle ==
    /\ GEMINI_OK = FALSE
    /\ secret_key = NoneVal
    /\ env_key = NoneVal
    /\ service = [kind |-> "generate_raises", text |-> <<>>]
    /\ texto = <<>>
    /\ gemini_calls = 0
    /\ narr_out = "pending"

LogIdle ==
    /\ nome = ""
    /\ linha = NoLinha
    /\ file = NoFile
    /\ now = 0

PageIdle ==
    /\ pc = "idle"
    /\ tela = NoTela
    /\ pdf = NoPdf
    /\ dash = NoDash

ConcIdle ==
    /\ cpc = [p \in Procs |-> "done"]
    /\ cnovo = [p \in Procs |-> NoFrame]
    /\ cdf = [p \in Procs |-> NoFrame]

----------------------------------------------------------------------------
\* SpecScore: calcular_resultados applied to every ResponseSet of the bounds.

Valores == CarreiraSet \cup {"", NoneVal, CodigoDesconhecido}

ResponseSets == UNION {[1..n -> Valores] : n \in 0..MaxPerguntas}

InitScore ==
    /\ respostas \in ResponseSets
    /\ resultados = TallyZero
    /\ carreira_final = NoneVal
    /\ score_out = "pending"
    /\ NarrIdle
    /\ LogIdle
    /\ PageIdle
    /\ ConcIdle

ScoreReturn ==
    /\ score_out = "pending"
    /\ LET r == calcular_resultados(respostas) IN
       /\ ~r.err
       /\ resultados' = r.resultados
       /\ carreira_final' = r.carreira_final
       /\ score_out' = "returned"
    /\ UNCHANGED <<respostas, narrVars, logVars, pageVars, concVars>>

ScoreKeyError ==
    /\ score_out = "pending"
    /\ calcular_resultados(respostas).err
    /\ score_out' = "KeyError"
    /\ UNCHANGED <<respostas, resultados, carreira_final, narrVars, logVars, pageVars, concVars>>

NextScore == ScoreReturn \/ ScoreKeyError

SpecScore == InitScore /\ [][NextScore]_vars

----------------------------------------------------------------------------
\* SpecNarr: get_gemini_descricao under every outcome of its environment.

InitNarr ==
    /\ respostas = <<>>
    /\ resultados = TallyZero
    /\ carreira_final \in CarreiraSet
    /\ score_out = "returned"
    /\ GEMINI_OK \in BOOLEAN
    /\ secret_key \in SecretOutcomes
    /\ env_key \in EnvOutcomes
    /\ service \in ServiceOutcomes
    /\ texto = <<>>
    /\ gemini_calls = 0
    /\ narr_out = "pending"
    /\ LogIdle
    /\ PageIdle
    /\ ConcIdle

Describe ==
    /\ narr_out = "pending"
    /\ LET d == get_gemini_descricao(carreira_final, GEMINI_OK, secret_key, env_key, service) IN
       /\ texto' = d.text
       /\ gemini_calls' = d.calls
       /\ narr_out' = IF d.raised THEN "raised" ELSE "returned"
    /\ UNCHANGED <<scoreVars, GEMINI_OK, secret_key, env_key, service, logVars, pageVars, concVars>>

NextNarr == Describe

SpecNarr == InitNarr /\ [][NextNarr]_vars

----------------------------------------------------------------------------
\* The inputs of the form (lines 180-197).

\* carregar_perguntas(): each question with the "carreira" of its options in
\* letter order; the resource gives every question one option per career
perguntas ==
    <<[id |-> 1, opcoes |-> CARREIRAS_KEYS], [id |-> 2, opcoes |-> CARREIRAS_KEYS]>>

\* respostas[p["id"]] = mapa[escolha]: st.radio always holds one of the labels
FormChoices ==
    {r \in [DOMAIN perguntas -> CarreiraSet] :
        \A i \in DOMAIN perguntas : r[i] \in Range(perguntas[i].opcoes)}

\* the names typed into the optional name field
Nomes == {"", "NA"}

----------------------------------------------------------------------------
\* SpecPerc: salvar_resultado_csv called once, with every tally of the bounds.

InitPerc ==
    /\ respostas = <<>>
    /\ resultados \in [CarreiraSet -> 0..MaxCount]
    /\ carreira_final = MaxKey(resultados)
    /\ score_out = "returned"
    /\ NarrIdle
    /\ nome \in {"", "Ana"}
    /\ linha = NoLinha
    /\ file = NoFile
    /\ now = 0
    /\ PageIdle
    /\ ConcIdle

\* lines 116-137 in one step
SalvarCall ==
    /\ linha = NoLinha
    /\ LET l == BuildLinha(now, nome, resultados, carreira_final) IN
       /\ linha' = l
       /\ file' = IF l.err THEN file ELSE ToCsv(FrameToWrite(file, l))
    /\ now' = now + 1
    /\ UNCHANGED <<scoreVars, narrVars, nome, pageVars, concVars>>

NextPerc == SalvarCall

SpecPerc == InitPerc /\ [][NextPerc]_vars

----------------------------------------------------------------------------
\* Spec: the script of app.py, run once per interaction (lines 174-245).

Init ==
    /\ ScoreIdle
    /\ NarrIdle
    /\ LogIdle
    /\ PageIdle
    /\ ConcIdle

\* an interaction that does not press the button: enviado is False
Rerun ==
    /\ pc = "idle"
    /\ pc' = "dashboard"
    /\ tela' = NoTela
    /\ pdf' = NoPdf
    /\ dash' = NoDash
    /\ UNCHANGED <<scoreVars, narrVars, logVars, concVars>>

\* the button is pressed: lines 199-211
Submit ==
    /\ pc = "idle"
    /\ Len(file.lines) < MaxRows
    /\ \E nm \in Nomes, resp \in FormChoices :
         LET r == calcular_resultados(resp) IN
         /\ ~r.err
         /\ nome' = nm
         /\ respostas' = resp
         /\ resultados' = r.resultados
         /\ carreira_final' = r.carreira_final
         /\ score_out' = "returned"
         /\ tela' = [carreira |-> CARREIRAS[r.carreira_final], texto |-> <<>>]
    /\ texto' = <<>>
    /\ gemini_calls' = 0
    /\ narr_out' = "pending"
    /\ pdf' = NoPdf
    /\ dash' = NoDash
    /\ pc' = "narrativa"
    /\ UNCHANGED <<GEMINI_OK, secret_key, env_key, service, linha, file, now, concVars>>

\* what get_gemini_descricao can return for a code, over every state of the
\* library, the credentials and the service
DescricaoOutcomes(codigo) ==
    {get_gemini_descricao(codigo, ok, sec, env, svc) :
        ok \in BOOLEAN, sec \in SecretOutcomes, env \in EnvOutcomes, svc \in ServiceOutcomes}

\* lines 213-215
Narrativa ==
    /\ pc = "narrativa"
    /\ \E d \in DescricaoOutcomes(carreira_final) :
         /\ ~d.raised
         /\ texto' = d.text
         /\ gemini_calls' = d.calls
         /\ narr_out' = "returned"
         /\ tela' = [tela EXCEPT !.texto = d.text]
    /\ pc' = "salvar"
    /\ UNCHANGED <<scoreVars, GEMINI_OK, secret_key, env_key, service, logVars, pdf, dash, concVars>>

\* line 217
Salvar ==
    /\ pc = "salvar"
    /\ LET l == BuildLinha(now, nome, resultados, carreira_final) IN
       /\ ~l.err
       /\ linha' = l
       /\ file' = ToCsv(FrameToWrite(file, l))
    /\ now' = now + 1
    /\ pc' = "pdf"
    /\ UNCHANGED <<scoreVars, narrVars, nome, tela, pdf, dash, concVars>>

\* lines 219-226
Pdf ==
    /\ pc = "pdf"
    /\ pdf' = gerar_pdf_relatorio(nome, resultados, carreira_final, texto)
    /\ pc' = "dashboard"
    /\ UNCHANGED <<scoreVars, narrVars, logVars, tela, dash, concVars>>

\* lines 229-245
DashboardTab ==
    /\ pc = "dashboard"
    /\ dash' = Dashboard(file)
    /\ pc' = "idle"
    /\ UNCHANGED <<scoreVars, narrVars, logVars, tela, pdf, concVars>>

Next == Rerun \/ Submit \/ Narrativa \/ Salvar \/ Pdf \/ DashboardTab

Spec == Init /\ [][Next]_vars

----------------------------------------------------------------------------
\* SpecConc: two processes inside salvar_resultado_csv at the same time. Each
\* of lines 132, 133 and 137 is one step; nothing orders the steps of one
\* process against those of the other.

InitConc ==
    /\ ScoreIdle
    /\ NarrIdle
    /\ LogIdle
    /\ PageIdle
    /\ cpc = [p \in Procs |-> "start"]
    /\ cnovo = [p \in Procs |-> NoFrame]
    /\ cdf = [p \in Procs |-> NoFrame]

\* lines 117-129: linha and df_novo
CBuild(p) ==
    /\ cpc[p] = "start"
    /\ \E nm \in Nomes, resp \in FormChoices :
         LET r == calcular_resultados(resp) IN
         cnovo' = [cnovo EXCEPT
                     ![p] = DataFrameOf(BuildLinha(now, nm, r.resultados, r.carreira_final))]
    /\ now' = now + 1
    /\ cpc' = [cpc EXCEPT ![p] = "read"]
    /\ UNCHANGED <<scoreVars, narrVars, nome, linha, file, pageVars, cdf>>

\* line 132, and lines 134-135 when the file is not there
CRead(p) ==
    /\ cpc[p] = "read"
    /\ IF file.exists
       THEN /\ cdf' = [cdf EXCEPT ![p] = ReadCsv(file)]
            /\ cpc' = [cpc EXCEPT ![p] = "concat"]
       ELSE /\ cdf' = [cdf EXCEPT ![p] = cnovo[p]]
            /\ cpc' = [cpc EXCEPT ![p] = "write"]
    /\ UNCHANGED <<scoreVars, narrVars, logVars, pageVars, cnovo>>

\* line 133
CConcat(p) ==
    /\ cpc[p] = "concat"
    /\ cdf' = [cdf EXCEPT ![p] = Concat(cdf[p], cnovo[p])]
    /\ cpc' = [cpc EXCEPT ![p] = "write"]
    /\ UNCHANGED <<scoreVars, narrVars, logVars, pageVars, cnovo>>

\* a write that takes the log as it is now, as a transaction would
FrameAtWriteMutAtomic(p) ==
    IF file.exists THEN Concat(ReadCsv(file), cnovo[p]) ELSE cnovo[p]

\* line 137 writes the df of lines 133 or 135
FrameAtWrite(p) == cdf[p]

CWrite(p) ==
    /\ cpc[p] = "write"
    /\ file' = ToCsv(FrameAtWrite(p))
    /\ cpc' = [cpc EXCEPT ![p] = "done"]
    /\ UNCHANGED <<scoreVars, narrVars, nome, linha, now, pageVars, cnovo, cdf>>

NextConc == \E p \in Procs : CBuild(p) \/ CRead(p) \/ CConcat(p) \/ CWrite(p)

SpecConc == InitConc /\ [][NextConc]_vars

----------------------------------------------------------------------------
\* Properties of calcular_resultados (SpecScore).

AllValid(resp) == \A i \in DOMAIN resp : resp[i] \in CarreiraSet

CountOf(resp, c) == Cardinality({i \in DOMAIN resp : resp[i] = c})

TallySum(res) ==
    res["advocacia"] + res["magistratura"] + res["ministerio_publico"] + res["consultoria"]

\* the position of a code in the category-definition order
Pos(c) == CHOOSE i \in DOMAIN CARREIRAS_KEYS : CARREIRAS_KEYS[i] = c

\* C1: for every ResponseSet whose selections are category codes, the tally
\* returned has an entry for each of the four categories and its counts sum
\* to the number of entries of the ResponseSet.
C1_TallySum ==
    (score_out = "returned" /\ AllValid(respostas)) =>
        /\ DOMAIN resultados = CarreiraSet
        /\ TallySum(resultados) = Len(respostas)

C1_Witness ==
    /\ score_out = "returned"
    /\ AllValid(respostas)
    /\ Len(respostas) >= 3
    /\ \E c \in CarreiraSet : resultados[c] = 2

\* C2: for every ResponseSet of category codes, the empty one included, the
\* call returns (no error); the winner's count is >= every other count, and
\* among the categories that tie for the maximum the winner is the first in
\* the order advocacia, magistratura, ministerio_publico, consultoria.
C2_Winner ==
    /\ AllValid(respostas) =>
          /\ score_out # "KeyError"
          /\ score_out = "pending" => ENABLED ScoreReturn
    /\ score_out = "returned" =>
          /\ carreira_final \in CarreiraSet
          /\ \A c \in CarreiraSet : resultados[carreira_final] >= resultados[c]
          /\ \A c \in CarreiraSet :
                resultados[c] = resultados[carreira_final] => Pos(carreira_final) <= Pos(c)
          /\ respostas = <<>> => carreira_final = "advocacia" /\ resultados = TallyZero

C2_Witness ==
    /\ score_out = "returned"
    /\ resultados["magistratura"] = resultados["consultoria"]
    /\ resultados["magistratura"] > resultados["advocacia"]
    /\ resultados["magistratura"] >= resultados["ministerio_publico"]
    /\ carreira_final = "magistratura"

\* C3 as stated: a ResponseSet with a selection outside the category set (an
\* unknown code, an empty or a missing value) never gets a tally back.
C3_Original ==
    (\E i \in DOMAIN respostas : respostas[i] \notin CarreiraSet) => score_out # "returned"

\* C3 as amended: a ResponseSet with a non-empty selection outside the
\* category set fails with KeyError and gets no tally; an empty or missing
\* selection is skipped without an error, and every tally returned counts
\* exactly the selections that are category codes.
C3_Amended ==
    /\ (\E i \in DOMAIN respostas : respostas[i] \notin CarreiraSet \cup Falsy) =>
          /\ score_out # "returned"
          /\ score_out = "pending" => ENABLED ScoreKeyError
    /\ (\A i \in DOMAIN respostas : respostas[i] \in CarreiraSet \cup Falsy) =>
          /\ score_out # "KeyError"
          /\ score_out = "pending" => ENABLED ScoreReturn
    /\ score_out = "returned" =>
          \A c \in CarreiraSet : resultados[c] = CountOf(respostas, c)

C3_Witness ==
    /\ score_out = "KeyError"
    /\ \E i, j \in DOMAIN respostas :
          /\ respostas[i] = CodigoDesconhecido
          /\ respostas[j] \in CarreiraSet

----------------------------------------------------------------------------
\* Properties of get_gemini_descricao (SpecNarr).

NoCredential == secret_key \in {"raise", NoneVal, ""} /\ env_key \in {NoneVal, ""}

CallNotMade == ~GEMINI_OK \/ NoCredential

\* C4 as stated: for every category and every outcome of the external step
\* the function does not raise and returns non-empty text; when the call is
\* not made or fails the text is the static description of the category.
C4_Original ==
    /\ narr_out # "raised"
    /\ narr_out = "returned" =>
          /\ texto # <<>>
          /\ (CallNotMade \/ service.kind # "text") => texto = DESCRICOES_BASE[carreira_final]

\* C9: the external service is called at most once per execution: never when
\* the library is missing or no credential is found in either source, and a
\* failed call is followed by the static description, not by a second call.
C9_AtMostOneCall ==
    narr_out = "returned" =>
        /\ gemini_calls <= 1
        /\ CallNotMade => gemini_calls = 0
        /\ (~CallNotMade /\ service.kind \in {"generate_raises", "text_raises"}) =>
              /\ gemini_calls = 1
              /\ texto = DESCRICOES_BASE[carreira_final]

C9_Witness ==
    /\ narr_out = "returned"
    /\ GEMINI_OK
    /\ secret_key = "raise"
    /\ env_key = "key-e"
    /\ service.kind = "generate_raises"
    /\ gemini_calls = 1
    /\ texto = DESCRICOES_BASE[carreira_final]

----------------------------------------------------------------------------
\* Properties of the log (Spec, SpecPerc, SpecConc).

\* the columns every row is to have
ExpectedCols ==
    {Col("timestamp", ""), Col("nome", ""), Col("carreira_final", "")}
        \cup {Col("pontos", c) : c \in CarreiraSet}
        \cup {Col("perc", c) : c \in CarreiraSet}

\* C5 as stated: from an absent log, N sequential calls leave N rows; each
\* call keeps the rows written before it, unchanged and in order, and adds
\* one row at the end; every row has the full column set.
C5_Original ==
    [][file' # file =>
          /\ Len(file'.lines) = Len(file.lines) + 1
          /\ Len(file'.lines) = now'
          /\ \A i \in DOMAIN file.lines : file'.lines[i] = file.lines[i]
          /\ Range(file'.header) = ExpectedCols
          /\ \A i \in DOMAIN file'.lines : DOMAIN file'.lines[i] = ExpectedCols]_vars

MaxOf(a, b) == IF a >= b THEN a ELSE b

\* ---- exact arithmetic on the floats of a row -----------------------------

RECURSIVE LAdd(_, _, _)
LAdd(a, b, carry) ==
    IF a = <<>> /\ b = <<>> THEN (IF carry = 0 THEN <<>> ELSE <<carry>>)
    ELSE LET t == (IF a = <<>> THEN 0 ELSE Head(a)) + (IF b = <<>> THEN 0 ELSE Head(b)) + carry
         IN  <<t % LimbBase>> \o LAdd(IF a = <<>> THEN a ELSE Tail(a),
                                      IF b = <<>> THEN b ELSE Tail(b), t \div LimbBase)

RECURSIVE LLeqFrom(_, _, _)
LLeqFrom(a, b, i) ==
    IF i = 0 THEN TRUE
    ELSE IF a[i] # b[i] THEN a[i] < b[i]
    ELSE LLeqFrom(a, b, i - 1)

\* a <= b for limb sequences without leading zero limbs
LLeq(a, b) == IF Len(a) # Len(b) THEN Len(a) < Len(b) ELSE LLeqFrom(a, b, Len(a))

\* 2^x as a limb sequence (a limb holds 18 bits)
Pow2Limbs(x) == [i \in 1..(x \div 18) |-> 0] \o <<2 ^ (x % 18)>>

\* the percentages of a row, in column order
RowPercs(row) == [i \in DOMAIN CARREIRAS_KEYS |-> row[Col("perc", CARREIRAS_KEYS[i])]]

\* the least exponent among the non-zero percentages of a row
RowScale(row) ==
    LET es == {RowPercs(row)[i].e : i \in {j \in 1..4 : RowPercs(row)[j] # FZero}}
    IN  CHOOSE e \in es : \A d \in es : e <= d

\* f / 2^scale as a limb sequence (an integer when scale <= f.e)
Scaled(f, scale) == IF f = FZero THEN <<>> ELSE LMulNat(f.m, 2 ^ (f.e - scale), 0)

\* the exact sum of the four percentages of a row, divided by 2^RowScale
RowSum(row) ==
    LET f == RowPercs(row)
        sc == RowScale(row)
    IN  LAdd(LAdd(Scaled(f[1], sc), Scaled(f[2], sc), 0),
             LAdd(Scaled(f[3], sc), Scaled(f[4], sc), 0), 0)

\* 100 on the scale of the row
RowHundred(row) == LMulNat(Pow2Limbs(0 - RowScale(row)), 100, 0)

\* 2^-45 on the scale of the row
RowTolerance(row) == Pow2Limbs(0 - 45 - RowScale(row))

\* the part of C6 the code and the claim agree on: the call returns for
\* every tally, and each percentage written is count / max(total, 1) * 100
\* as binary64 arithmetic gives it
PercentagesWritten ==
    /\ ~linha.err
    /\ file.exists
    /\ LET row == file.lines[Len(file.lines)]
           total == TallySum(resultados)
       IN  /\ \A c \in CarreiraSet :
                 /\ row[Col("pontos", c)] = resultados[c]
                 /\ row[Col("perc", c)] =
                       FMulNat(FDivNat(resultados[c], MaxOf(total, 1)), 100)
           /\ total = 0 => \A c \in CarreiraSet : row[Col("perc", c)] = FZero

\* C6 as stated: each percentage written is count / max(total, 1) * 100, the
\* percentages of the row sum to 100 when total > 0 and to 0 when
\* total = 0, and the call does not fail when total = 0.
C6_Original ==
    linha # NoLinha =>
        /\ PercentagesWritten
        /\ TallySum(resultados) > 0 =>
              LET row == file.lines[Len(file.lines)] IN RowSum(row) = RowHundred(row)

\* C6 as amended: as stated, but for total > 0 the sum of the percentages is
\* 100 up to the rounding of binary64: it differs from 100 by at most 2^-45.
C6_Amended ==
    linha # NoLinha =>
        /\ PercentagesWritten
        /\ TallySum(resultados) > 0 =>
              LET row == file.lines[Len(file.lines)] IN
              /\ LLeq(RowSum(row), LAdd(RowHundred(row), RowTolerance(row), 0))
              /\ LLeq(RowHundred(row), LAdd(RowSum(row), RowTolerance(row), 0))

\* a row of three thirds, whose sum is not 100, has been written
C6_Witness ==
    /\ linha # NoLinha
    /\ file.exists
    /\ TallySum(resultados) = 3
    /\ resultados["advocacia"] = 0
    /\ LET row == file.lines[1] IN
       /\ RowSum(row) # RowHundred(row)
       /\ LLeq(RowSum(row), RowHundred(row))

\* C7: when both processes read the log before either wrote it, both appends
\* complete and the log holds one row, fewer than the appends completed;
\* otherwise it holds both. The read, the concatenation and the write of a
\* process never wait for the other process.
C7_LostUpdate ==
    /\ \A p \in Procs : cpc[p] \in {"read", "concat", "write"} =>
          ENABLED (CRead(p) \/ CConcat(p) \/ CWrite(p))
    /\ (\A p \in Procs : cpc[p] = "done") =>
          Len(file.lines) =
              IF \A p \in Procs : Len(cdf[p].rows) = 1 THEN 1 ELSE Cardinality(Procs)

C7_Witness ==
    /\ \A p \in Procs : cpc[p] = "done"
    /\ Len(file.lines) < Cardinality(Procs)

DistCount(d, c) == IF c \in DOMAIN d THEN d[c] ELSE 0

\* C8: the dashboard read does not fail on an absent log, it shows the 'no
\* data yet' state; on a log that exists the total is the number of rows and
\* the distribution counts each row under its own winner, so its counts sum
\* to the total.
C8_Dashboard ==
    /\ pc = "dashboard" => ENABLED DashboardTab
    /\ dash.state # "blank" =>
          IF ~file.exists THEN dash.state = "info"
          ELSE /\ dash.state = "data"
               /\ dash.total = Len(file.lines)
               /\ DOMAIN dash.dist \subseteq CarreiraSet
               /\ \A c \in CarreiraSet :
                     DistCount(dash.dist, c) =
                        Cardinality({i \in DOMAIN file.lines :
                                        file.lines[i][Col("carreira_final", "")] = c})
               /\ DistCount(dash.dist, "advocacia") + DistCount(dash.dist, "magistratura")
                     + DistCount(dash.dist, "ministerio_publico")
                     + DistCount(dash.dist, "consultoria") = dash.total

C8_Witness ==
    /\ dash.state = "data"
    /\ dash.total = 2
    /\ Cardinality(DOMAIN dash.dist) = 2

\* C10: a submission of valid selections appends one row, in the step after
\* the narrative step (whatever its outcome) and before the report is
\* rendered; the row holds the winner and the tally calcular_resultados
\* gives for the submission; the report holds the text shown on the page.
C10_Step ==
    /\ pc = "narrativa" => file' = file /\ pdf' = NoPdf /\ pc' = "salvar"
    /\ pc = "salvar" =>
          /\ narr_out = "returned"
          /\ tela.texto = texto
          /\ pdf = NoPdf /\ pdf' = NoPdf
          /\ pc' = "pdf"
          /\ Len(file'.lines) = Len(file.lines) + 1
          /\ LET row == file'.lines[Len(file'.lines)]
                 r == calcular_resultados(respostas)
             IN  /\ AllValid(respostas)
                 /\ row[Col("carreira_final", "")] = r.carreira_final
                 /\ \A c \in CarreiraSet : row[Col("pontos", c)] = r.resultados[c]
    /\ pc = "pdf" =>
          /\ file' = file
          /\ pc' = "dashboard"
          /\ pdf' # NoPdf
          /\ pdf'.descricao = tela.texto
    /\ file' # file => pc = "salvar"

C10_Handler == [][C10_Step]_vars

C10_Witness ==
    /\ pc = "dashboard"
    /\ pdf # NoPdf
    /\ Len(file.lines) = 2
    /\ gemini_calls = 1
    /\ texto = DESCRICOES_BASE[carreira_final]
    /\ pdf.descricao = texto

====
